---- MODULE Spec2Model ----
(***************************************************************************)
(* Reference evapotranspiration (FAO Penman-Monteith) batch script:        *)
(* src/evapotranspiration.py.                                              *)
(*                                                                         *)
(* The script reads a table, computes ET0 row by row with four formula     *)
(* functions, stores round(ET0, 1) in column ET0 and writes the table.     *)
(*                                                                         *)
(* Numbers.  The code computes in IEEE double precision.  The model keeps  *)
(* the same operations in the same order with the same rounding rule       *)
(* (round to nearest, ties to even) and the same special values, on a      *)
(* decimal format with a four digit mantissa: a float is <<k, m, e>>,      *)
(*    k = 0   the finite number m * 10^e, m = 0 or 1000 <= |m| <= 9999     *)
(*    k = 1   infinity of sign m                                           *)
(*    k = 2   NaN                                                          *)
(*    k = 3   not a value: the evaluation raised exception m               *)
(*    k = 4   a text cell (never used in arithmetic)                       *)
(* The mantissa is short because TLC's integers are 32 bit: the product of *)
(* two mantissas has to fit.  Signed zero is not modelled (every zero is   *)
(* +0).                                                                    *)
(***************************************************************************)
EXTENDS Integers, Sequences, FiniteSets, TLC

----------------------------------------------------------------------------
(* Exceptions of the Python run time that the script can meet.             *)
ValueError == 1
OverflowError == 2
ZeroDivisionError == 3
TypeError == 4
UnboundLocalError == 5
KeyboardInterrupt == 6
IOError == 7
ParserError == 8

Raise(x) == <<3, x, 0>>
NaN == <<2, 0, 0>>
Inf(s) == <<1, s, 0>>
Zero == <<0, 0, 0>>

IsFin(a) == a[1] = 0
IsInf(a) == a[1] = 1
IsNaN(a) == a[1] = 2
IsExc(a) == a[1] = 3
IsNonFinite(a) == a[1] = 1 \/ a[1] = 2

Abs(n) == IF n < 0 THEN -n ELSE n
Sgn(n) == IF n < 0 THEN -1 ELSE IF n = 0 THEN 0 ELSE 1

RECURSIVE Pow10(_)
Pow10(d) == IF d = 0 THEN 1 ELSE 10 * Pow10(d - 1)

RECURSIVE NDigits(_)
NDigits(n) == IF n < 10 THEN 1 ELSE 1 + NDigits(n \div 10)

(* n / 10^d rounded to the nearest integer, ties to even (n >= 0).         *)
RoundDiv(n, d) ==
    LET p == Pow10(d)
        q == n \div p
        r == n % p
    IN  IF 2 * r > p \/ (2 * r = p /\ q % 2 = 1) THEN q + 1 ELSE q

(* The float nearest to m * 10^e; overflow gives infinity, underflow zero  *)
(* (the exponent range of a double).                                       *)
Norm(m, e) ==
    IF m = 0 THEN Zero
    ELSE LET a == Abs(m)
             n == NDigits(a)
             q == IF n > 4 THEN RoundDiv(a, n - 4) ELSE a * Pow10(4 - n)
             c == q = 10000
             mm == IF c THEN 1000 ELSE q
             ee == e + (n - 4) + (IF c THEN 1 ELSE 0)
         IN  IF ee > 305 THEN Inf(Sgn(m))
             ELSE IF ee < -327 THEN Zero
             ELSE <<0, Sgn(m) * mm, ee>>

(* A literal of the source: F(1727, -2) is 17.27.                          *)
F(m, e) == Norm(m, e)

(* The first exception raised, operands evaluated left to right.           *)
Exc2(a, b) == IF IsExc(a) THEN a ELSE b

FNeg(a) == IF IsFin(a) \/ IsInf(a) THEN <<a[1], -a[2], a[3]>> ELSE a

FSign(a) == Sgn(a[2])

(* a + b *)
FAddFin(a, b) ==
    IF a[2] = 0 THEN b
    ELSE IF b[2] = 0 THEN a
    ELSE LET hi == IF a[3] >= b[3] THEN a ELSE b
             lo == IF a[3] >= b[3] THEN b ELSE a
             d == hi[3] - lo[3]
         IN  IF d > 5 THEN hi
             ELSE Norm(hi[2] * Pow10(d) + lo[2], lo[3])

FAdd(a, b) ==
    IF IsExc(a) \/ IsExc(b) THEN Exc2(a, b)
    ELSE IF IsNaN(a) \/ IsNaN(b) THEN NaN
    ELSE IF IsInf(a) /\ IsInf(b) THEN (IF a[2] = b[2] THEN a ELSE NaN)
    ELSE IF IsInf(a) THEN a
    ELSE IF IsInf(b) THEN b
    ELSE FAddFin(a, b)

FSub(a, b) == FAdd(a, FNeg(b))

(* a * b *)
FMul(a, b) ==
    IF IsExc(a) \/ IsExc(b) THEN Exc2(a, b)
    ELSE IF IsNaN(a) \/ IsNaN(b) THEN NaN
    ELSE IF IsInf(a) \/ IsInf(b)
         THEN (IF a[2] = 0 \/ b[2] = 0 THEN NaN ELSE Inf(FSign(a) * FSign(b)))
    ELSE Norm(a[2] * b[2], a[3] + b[3])

(* The quotient of two finite non-zero floats.  The integer quotient keeps *)
(* at least five digits; a non-zero remainder is made visible to the       *)
(* rounding (sticky digit).                                                *)
FDivFin(a, b) ==
    LET n == Abs(a[2]) * 100000
        d == Abs(b[2])
        q == n \div d
        r == n % d
        qs == IF r # 0 /\ q % 5 = 0 THEN q + 1 ELSE q
    IN  Norm(FSign(a) * FSign(b) * qs, a[3] - b[3] - 5)

(* a / b.  np: an operand is a numpy float64 scalar, whose division by     *)
(* zero gives inf or nan (and a RuntimeWarning); a division of two Python  *)
(* floats by zero raises ZeroDivisionError.                                *)
FDiv(np, a, b) ==
    IF IsExc(a) \/ IsExc(b) THEN Exc2(a, b)
    ELSE IF IsNaN(a) \/ IsNaN(b) THEN NaN
    ELSE IF IsInf(a) THEN (IF IsInf(b) THEN NaN
                           ELSE Inf(a[2] * (IF b[2] < 0 THEN -1 ELSE 1)))
    ELSE IF IsInf(b) THEN Zero
    ELSE IF b[2] = 0
         THEN (IF ~np THEN Raise(ZeroDivisionError)
               ELSE IF a[2] = 0 THEN NaN ELSE Inf(FSign(a)))
    ELSE IF a[2] = 0 THEN Zero
    ELSE FDivFin(a, b)

(* a < b for finite floats *)
FLtFin(a, b) == FSign(FAddFin(a, FNeg(b))) < 0

FAbs(a) == IF IsFin(a) \/ IsInf(a) THEN <<a[1], Abs(a[2]), a[3]>> ELSE a

----------------------------------------------------------------------------
(* The math library on this format: each function is computed in the      *)
(* format's own arithmetic and raises what Python's math module raises.    *)

Pi == <<0, 3142, -3>>
HalfPi == <<0, 1571, -3>>
TwoPi == <<0, 6284, -3>>
One == <<0, 1000, -3>>
Two == <<0, 2000, -3>>

(* Python's division of two built-in floats with a non-zero divisor.       *)
PDiv(a, b) == FDiv(FALSE, a, b)

(* acc + t + t*x2/((n+1)(n+2)) + ...: the terms of a power series, each    *)
(* from the one before, up to the power k.                                 *)
RECURSIVE Series(_, _, _, _, _)
Series(acc, t, x2, n, k) ==
    IF n > k THEN acc
    ELSE Series(FAdd(acc, t), PDiv(FMul(t, x2), F((n + 1) * (n + 2), 0)), x2, n + 2, k)

(* sin and cos for |x| <= pi/2 *)
SinSmall(x) == Series(Zero, x, FNeg(FMul(x, x)), 1, 13)
CosSmall(x) == Series(Zero, One, FNeg(FMul(x, x)), 0, 12)

(* x brought into [-pi, pi] by whole turns *)
RECURSIVE Turn(_)
Turn(x) ==
    IF FLtFin(Pi, x) THEN Turn(FSub(x, TwoPi))
    ELSE IF FLtFin(x, FNeg(Pi)) THEN Turn(FAdd(x, TwoPi))
    ELSE x

SinTurned(y) ==
    IF FLtFin(HalfPi, y) THEN SinSmall(FSub(Pi, y))
    ELSE IF FLtFin(y, FNeg(HalfPi)) THEN FNeg(SinSmall(FAdd(Pi, y)))
    ELSE SinSmall(y)

CosTurned(y) ==
    IF FLtFin(HalfPi, y) THEN FNeg(CosSmall(FSub(Pi, y))) ELSE CosSmall(y)

(* math.sin *)
FSin(x) ==
    IF IsExc(x) \/ IsNaN(x) THEN x
    ELSE IF IsInf(x) THEN Raise(ValueError)
    ELSE SinTurned(Turn(x))

(* math.cos *)
FCos(x) ==
    IF IsExc(x) \/ IsNaN(x) THEN x
    ELSE IF IsInf(x) THEN Raise(ValueError)
    ELSE CosTurned(FAbs(Turn(x)))

(* math.tan *)
TanTurned(y) == PDiv(SinTurned(y), CosTurned(FAbs(y)))

FTan(x) ==
    IF IsExc(x) \/ IsNaN(x) THEN x
    ELSE IF IsInf(x) THEN Raise(ValueError)
    ELSE TanTurned(Turn(x))

(* the integer square root of n, by Newton's iteration from above *)
RECURSIVE ISqrtFrom(_, _)
ISqrtFrom(n, g) ==
    LET h == (g + n \div g) \div 2
    IN  IF h >= g THEN g ELSE ISqrtFrom(n, h)

ISqrt(n) == IF n < 2 THEN n ELSE ISqrtFrom(n, 46340)

(* q, one more when it is not the exact root of m and would look exact to  *)
(* the rounding (sticky digit)                                             *)
Sticky(q, m) == IF q * q # m /\ q % 5 = 0 THEN q + 1 ELSE q

(* the square root of the finite float m * 10^e, e even *)
SqrtEven(m, e) == Norm(Sticky(ISqrt(m), m), e \div 2)

(* the square root of a finite float a >= 0 *)
SqrtFin(a) ==
    IF a[2] = 0 THEN Zero
    ELSE IF a[3] % 2 # 0 THEN SqrtEven(a[2] * 100000, a[3] - 5)
    ELSE SqrtEven(a[2] * 10000, a[3] - 4)

(* a ** 0.5: nan for a negative numpy scalar; a negative Python float      *)
(* gives a complex number, which round() then rejects with TypeError.      *)
FSqrt(np, a) ==
    IF IsExc(a) \/ IsNaN(a) THEN a
    ELSE IF a[2] < 0 THEN (IF np THEN NaN ELSE Raise(TypeError))
    ELSE IF IsInf(a) THEN a
    ELSE SqrtFin(a)

(* a ** 2 and a ** 4 *)
FSquare(a) == FMul(a, a)
FPow4(a) == FSquare(FSquare(a))

(* acc + t + t*x/n + ...: the series of exp, up to the power k *)
RECURSIVE ExpSeries(_, _, _, _, _)
ExpSeries(acc, t, x, n, k) ==
    IF n > k THEN acc
    ELSE ExpSeries(FAdd(acc, t), PDiv(FMul(t, x), F(n + 1, 0)), x, n + 1, k)

(* exp by halving the argument to |x| <= 1/2, the power series, and        *)
(* squaring back                                                           *)
RECURSIVE ExpFin(_)
ExpFin(x) ==
    IF FLtFin(F(5, -1), FAbs(x)) THEN FSquare(ExpFin(PDiv(x, Two)))
    ELSE ExpSeries(Zero, One, x, 0, 6)

(* math.exp: OverflowError above the largest double's logarithm *)
FExp(x) ==
    IF IsExc(x) \/ IsNaN(x) THEN x
    ELSE IF IsInf(x) THEN (IF x[2] > 0 THEN x ELSE Zero)
    ELSE IF FLtFin(F(7097, -1), x) THEN Raise(OverflowError)
    ELSE IF FLtFin(x, F(-7452, -1)) THEN Zero
    ELSE ExpFin(x)

(* acc + t + t*x2*n*n/((n+1)(n+2)) + ...: the series of asin *)
RECURSIVE AsinSeries(_, _, _, _)
AsinSeries(acc, t, x2, n) ==
    IF n > 25 THEN acc
    ELSE AsinSeries(FAdd(acc, t),
                    PDiv(FMul(FMul(t, x2), F(n * n, 0)), F((n + 1) * (n + 2), 0)),
                    x2, n + 2)

(* asin for |x| <= 0.71 *)
AsinSmall(x) == AsinSeries(Zero, x, FMul(x, x), 1)

(* acos for |x| <= 1 *)
AcosFin(x) ==
    IF FLtFin(F(71, -2), x)
    THEN FMul(Two, AsinSmall(SqrtFin(PDiv(FSub(One, x), Two))))
    ELSE IF FLtFin(x, F(-71, -2))
    THEN FSub(Pi, FMul(Two, AsinSmall(SqrtFin(PDiv(FAdd(One, x), Two)))))
    ELSE FSub(HalfPi, AsinSmall(x))

(* Faulty variant of FAcos: an acos that answers NaN outside [-1, 1], as   *)
(* C's acos does, instead of raising.                                      *)
FAcos_NaN(x) ==
    IF IsExc(x) \/ IsNaN(x) THEN x
    ELSE IF IsInf(x) \/ FLtFin(One, FAbs(x)) THEN NaN
    ELSE AcosFin(x)

(* math.acos: ValueError ("math domain error") outside [-1, 1] *)
FAcos(x) ==
    IF IsExc(x) \/ IsNaN(x) THEN x
    ELSE IF IsInf(x) \/ FLtFin(One, FAbs(x)) THEN Raise(ValueError)
    ELSE AcosFin(x)

(* round(a, 1): to one decimal place, ties to even; nan and inf unchanged  *)
FRound1(a) ==
    IF ~IsFin(a) \/ a[3] >= -1 THEN a
    ELSE IF a[3] < -6 THEN Zero
    ELSE Norm(Sgn(a[2]) * RoundDiv(Abs(a[2]), -1 - a[3]), -1)

----------------------------------------------------------------------------
(* The formula functions.  np says whether the row's values are numpy      *)
(* float64 scalars (see NumpyRow below); it selects the division and power *)
(* semantics and changes nothing else.  A value the code names and uses    *)
(* more than once is a parameter of the operator that continues the        *)
(* function, so that it is computed once, as in the code.                  *)

(* 0.618 * math.exp((17.27 * T) / (T + 237.3)) *)
e0T(np, T) ==
    FMul(F(618, -3), FExp(FDiv(np, FMul(F(1727, -2), T), FAdd(T, F(2373, -1)))))

(* Faulty variant of VPDFrom: ea divided by 100 instead of 200. *)
VPDFrom_Div100(np, e0T_min, e0T_max, RHmin, RHmax) ==
    << FDiv(np, FAdd(e0T_min, e0T_max), F(2, 0)),
       FDiv(np, FAdd(FMul(e0T_min, RHmax), FMul(e0T_max, RHmin)), F(100, 0)) >>

(* es and ea from e0T_min and e0T_max *)
VPDFrom(np, e0T_min, e0T_max, RHmin, RHmax) ==
    << FDiv(np, FAdd(e0T_min, e0T_max), F(2, 0)),
       FDiv(np, FAdd(FMul(e0T_min, RHmax), FMul(e0T_max, RHmin)), F(200, 0)) >>

(* calculate_VPD: <<es, ea>> *)
calculate_VPD(np, Tmin, Tmax, RHmin, RHmax) ==
    VPDFrom(np, e0T(np, Tmin), e0T(np, Tmax), RHmin, RHmax)

(* calculate_delta *)
calculate_delta(np, T_mean) ==
    FDiv(np,
         FMul(FMul(F(4098, 0), F(6108, -4)),
              FExp(FDiv(np, FMul(F(1727, -2), T_mean), FAdd(T_mean, F(2373, -1))))),
         FSquare(FAdd(T_mean, F(2373, -1))))

(* latitude = lat*math.pi/180 *)
Latitude(np, lat) == FDiv(np, FMul(lat, Pi), F(180, 0))

(* 2 * math.pi * doy / 365 *)
YearAngle(np, doy) == FDiv(np, FMul(FMul(Two, Pi), doy), F(365, 0))

(* d_r and solar_declination *)
InverseDistance(turn) == FAdd(One, FMul(F(33, -3), FCos(turn)))
SolarDeclination(turn) == FMul(F(409, -3), FSin(FSub(turn, F(139, -2))))

(* The argument the code hands to math.acos. *)
AcosArgFrom(latitude, solar_declination) ==
    FMul(FNeg(FTan(latitude)), FTan(solar_declination))

AcosArg(np, lat, doy) ==
    AcosArgFrom(Latitude(np, lat), SolarDeclination(YearAngle(np, doy)))

(* Rns - Rnl *)
RnFromRs(alb, np, Rs, Rs0, ea, T_min, T_max) ==
    FSub(FMul(FSub(One, alb), Rs),
         FMul(FMul(FMul(F(4903, -12),
                        FDiv(np, FAdd(FPow4(FAdd(T_min, F(27316, -2))),
                                      FPow4(FAdd(T_max, F(273, 0)))),
                             Two)),
                   FSub(F(34, -2), FMul(F(14, -2), FSqrt(np, ea)))),
              FSub(FDiv(np, FMul(F(135, -2), Rs), Rs0), F(35, -2))))

(* Rs and Rs0 from Ra and N *)
RnFromRa(alb, as, bs, np, Ra, N, n, ea, T_min, T_max, altitude) ==
    RnFromRs(alb, np,
             FMul(FAdd(as, FDiv(np, FMul(bs, n), N)), Ra),
             FMul(FAdd(F(75, -2), FMul(F(2, -5), altitude)), Ra),
             ea, T_min, T_max)

(* Ra and N from the sunset hour angle *)
RnFromSunset(alb, as, bs, np, latitude, d_r, solar_declination, sunset_hour_angle, n, ea, T_min, T_max, altitude) ==
    RnFromRa(alb, as, bs, np,
             FMul(FMul(FMul(PDiv(F(24 * 60, 0), Pi), F(82, -3)), d_r),
                  FAdd(FMul(FMul(sunset_hour_angle, FSin(latitude)),
                            FSin(solar_declination)),
                       FMul(FMul(FCos(latitude), FCos(solar_declination)),
                            FSin(sunset_hour_angle)))),
             PDiv(FMul(F(24, 0), sunset_hour_angle), Pi),
             n, ea, T_min, T_max, altitude)

(* the sunset hour angle from latitude and declination *)
RnFromAngles(alb, as, bs, np, latitude, d_r, solar_declination, n, ea, T_min, T_max, altitude) ==
    RnFromSunset(alb, as, bs, np, latitude, d_r, solar_declination,
                 FAcos(AcosArgFrom(latitude, solar_declination)),
                 n, ea, T_min, T_max, altitude)

RnFromTurn(alb, as, bs, np, latitude, turn, n, ea, T_min, T_max, altitude) ==
    RnFromAngles(alb, as, bs, np, latitude, InverseDistance(turn),
                 SolarDeclination(turn), n, ea, T_min, T_max, altitude)

(* Rn, given the module constants it reads *)
RnWith(alb, as, bs, np, lat, doy, n, ea, T_min, T_max, altitude) ==
    RnFromTurn(alb, as, bs, np, Latitude(np, lat), YearAngle(np, doy),
               n, ea, T_min, T_max, altitude)

(* penman_monteith *)
penman_monteith(np, T, delta, wind_speed, Rn_, air_pressure, gamma, ea, es) ==
    FDiv(np,
         FAdd(FMul(FMul(F(408, -3), delta), Rn_),
              FMul(FMul(FMul(gamma, FDiv(np, F(900, 0), FAdd(T, F(273, 0)))),
                        wind_speed),
                   FSub(es, ea))),
         FAdd(delta, FMul(gamma, FAdd(One, FMul(F(34, -2), wind_speed)))))

----------------------------------------------------------------------------
(* The run of the script.                                                  *)

VARIABLES
    pc,       \* the statement main is at
    file,     \* the input file: [status, rows]
    rd,       \* read_data's local df: [bound, rows]
    df,       \* main's df: [bound, rows]; a row maps column names to cells
    index,    \* rows of df the loop has taken so far
    loc,      \* main's locals inside the loop
    out,      \* the result file: [written, complete, rows]
    writes,   \* calls of to_csv that completed
    stdout,   \* the messages printed, in order
    exit,     \* the process's exit status, -1 while it runs
    tb,       \* the exception that ended main: <<exception, statement>>
    albedo, a_s, b_s,   \* the module constants
    calls     \* the formula calls made so far: function -> {<<arguments, result>>}

vars == <<pc, file, rd, df, index, loc, out, writes, stdout, exit, tb,
          albedo, a_s, b_s, calls>>

(* Rn reads the module constants when it is called. *)
Rn(np, lat, doy, n, ea, T_min, T_max, altitude) ==
    RnWith(albedo, a_s, b_s, np, lat, doy, n, ea, T_min, T_max, altitude)

(* The eleven columns the loop reads. *)
Fields == {"lat", "Tmin", "Tmax", "Tmean", "RHmin", "RHmax", "uz", "n",
           "pressure", "doy", "z"}

(* The example record of the specification. *)
BaseRow ==
    [lat |-> F(45, 0), Tmin |-> F(12, 0), Tmax |-> F(25, 0), Tmean |-> F(185, -1),
     RHmin |-> F(40, 0), RHmax |-> F(80, 0), uz |-> F(2, 0), n |-> F(9, 0),
     pressure |-> F(1013, -1), doy |-> F(180, 0), z |-> F(100, 0)]

(* Records the loop can meet: the example; one with equal humidities; a    *)
(* polar day; mean temperatures -237.3 and -273.                           *)
RowSet ==
    { BaseRow,
      [BaseRow EXCEPT !.RHmin = F(60, 0), !.RHmax = F(60, 0), !.Tmean = F(21, 0)],
      [BaseRow EXCEPT !.lat = F(80, 0), !.doy = F(172, 0)],
      [BaseRow EXCEPT !.Tmean = F(-2373, -1)],
      [BaseRow EXCEPT !.Tmean = F(-273, 0)] }

(* The longest table. *)
MaxRows == 2

RECURSIVE SeqsUpTo(_, _)
SeqsUpTo(S, k) ==
    IF k = 0 THEN {<<>>}
    ELSE LET shorter == SeqsUpTo(S, k - 1)
         IN  shorter \cup {Append(t, r) : t \in {u \in shorter : Len(u) = k - 1}, r \in S}

(* A text cell and the value of an ET0 column the input already has. *)
Text == <<4, 1, 0>>
OldET0 == F(987, -2)

(* f with column c holding v (added when f has no such column). *)
WithCol(f, c, v) == [k \in (DOMAIN f) \cup {c} |-> IF k = c THEN v ELSE f[k]]

(* The input tables: the eleven columns, with or without a text column    *)
(* "station" and a numeric column "ET0" (the script's own earlier output). *)
Extend(t, hasText, hasET0) ==
    [i \in 1..Len(t) |->
        LET a == IF hasText THEN WithCol(t[i], "station", Text) ELSE t[i]
        IN  IF hasET0 THEN WithCol(a, "ET0", OldET0) ELSE a]

Tables ==
    {Extend(t, x, y) : t \in SeqsUpTo(RowSet, MaxRows), x \in BOOLEAN, y \in BOOLEAN}

(* Tables of one record over a grid of temperatures and humidities. *)
GridT == {F(-5, 0), F(3, 0), F(12, 0), F(14, 0), F(22, 0), F(25, 0), F(31, 0)}
GridRH == {F(15, 0), F(35, 0), F(60, 0), F(85, 0), F(100, 0)}
GridTables ==
    { <<[BaseRow EXCEPT !.Tmin = a, !.Tmax = b, !.RHmin = h, !.RHmax = h]>> :
        a \in GridT, b \in GridT, h \in GridRH }

Files(tables) ==
    {[status |-> "ok", rows |-> t] : t \in tables}
    \cup {[status |-> st, rows |-> <<>>] : st \in {"missing", "ioerror", "malformed"}}

Unbound == [bound |-> FALSE, rows |-> <<>>]
Bound(rows) == [bound |-> TRUE, rows |-> rows]

(* A local that is not assigned yet: reading it raises UnboundLocalError.  *)
NoLocal == Raise(UnboundLocalError)
LocNames == Fields \cup {"delta", "gamma", "es", "ea", "solar_radiation", "ET0"}

NoCalls == [f \in {"calculate_VPD", "calculate_delta", "Rn", "penman_monteith"} |-> {}]

InitWith(tables) ==
    /\ pc = "parse_args"
    /\ file \in Files(tables)
    /\ rd = Unbound
    /\ df = Unbound
    /\ index = 0
    /\ loc = [k \in LocNames |-> NoLocal]
    /\ out = [written |-> FALSE, complete |-> FALSE, rows |-> <<>>]
    /\ writes = 0
    /\ stdout = <<>>
    /\ exit = -1
    /\ tb = <<0, "">>
    /\ albedo = F(23, -2)
    /\ a_s = F(25, -2)
    /\ b_s = F(50, -2)
    /\ calls = NoCalls

Init == InitWith(Tables)

(* iterrows builds each row from the table's values as one array: numpy    *)
(* float64 scalars when every column is numeric, Python objects (built-in  *)
(* floats) as soon as one column holds text.                               *)
NumpyRow(rows) == \A i \in 1..Len(rows) : \A c \in DOMAIN rows[i] : rows[i][c][1] # 4

numpy == NumpyRow(df.rows)

(* An exception nobody catches: the traceback names it and the statement,  *)
(* and the interpreter exits with status 1.                                *)
Uncaught(e, at) ==
    /\ pc' = "exited"
    /\ exit' = 1
    /\ tb' = <<e, at>>

Logged(f, args, result) == [calls EXCEPT ![f] = @ \cup {<<args, result>>}]

----------------------------------------------------------------------------
(* main, statement by statement.                                           *)

(* args = parse_args(): argparse ends the process with status 2 when a     *)
(* required option is missing.                                             *)
ParseArgs ==
    /\ pc = "parse_args"
    /\ \E given \in BOOLEAN :
          IF given THEN pc' = "read_try" /\ exit' = exit
                   ELSE pc' = "exited" /\ exit' = 2
    /\ UNCHANGED <<file, rd, df, index, loc, out, writes, stdout, tb,
                   albedo, a_s, b_s, calls>>

(* read_data, the try statement: pd.read_csv binds df; FileNotFoundError   *)
(* and IOError are caught and reported; a malformed file raises a pandas   *)
(* ParserError, which no clause catches.                                   *)
ReadTry ==
    /\ pc = "read_try"
    /\ CASE file.status = "ok" ->
              /\ rd' = Bound(file.rows)
              /\ stdout' = stdout
              /\ pc' = "read_return" /\ UNCHANGED <<exit, tb>>
         [] file.status = "missing" ->
              /\ rd' = rd
              /\ stdout' = Append(stdout, "File not found.")
              /\ pc' = "read_return" /\ UNCHANGED <<exit, tb>>
         [] file.status = "ioerror" ->
              /\ rd' = rd
              /\ stdout' = Append(stdout, "An error occurred while reading the file")
              /\ pc' = "read_return" /\ UNCHANGED <<exit, tb>>
         [] OTHER ->
              /\ rd' = rd
              /\ stdout' = stdout
              /\ Uncaught(ParserError, "read_try")
    /\ UNCHANGED <<file, df, index, loc, out, writes, albedo, a_s, b_s, calls>>

(* Faulty variant of ReadReturn: a return that hands an unassigned df to   *)
(* main without raising.                                                   *)
ReadReturn_Unbound ==
    /\ pc = "read_return"
    /\ df' = rd
    /\ pc' = "for"
    /\ UNCHANGED <<file, rd, index, loc, out, writes, stdout, exit, tb,
                   albedo, a_s, b_s, calls>>

(* read_data, return df: reading a local that was never assigned raises    *)
(* UnboundLocalError there; otherwise main's df is bound to the table.     *)
ReadReturn ==
    /\ pc = "read_return"
    /\ IF rd.bound
       THEN /\ df' = rd
            /\ pc' = "for" /\ UNCHANGED <<exit, tb>>
       ELSE /\ df' = df
            /\ Uncaught(UnboundLocalError, "read_return")
    /\ UNCHANGED <<file, rd, index, loc, out, writes, stdout, albedo, a_s, b_s, calls>>

(* Faulty variant of ForNext: Tmean is taken from the row only while it is *)
(* unassigned, so that later rows keep the first row's Tmean.              *)
ForNext_StaleTmean ==
    /\ pc = "for"
    /\ IF index < Len(df.rows)
       THEN /\ loc' = [k \in LocNames |->
                          IF k \in Fields /\ (k # "Tmean" \/ IsExc(loc[k]))
                          THEN df.rows[index + 1][k] ELSE loc[k]]
            /\ pc' = "delta"
       ELSE /\ loc' = loc
            /\ pc' = "to_csv"
    /\ UNCHANGED <<file, rd, df, index, out, writes, stdout, exit, tb,
                   albedo, a_s, b_s, calls>>

(* for index, row in df.iterrows(), and the eleven assignments from row;   *)
(* the loop ends after the last row.                                       *)
ForNext ==
    /\ pc = "for"
    /\ IF index < Len(df.rows)
       THEN /\ loc' = [k \in LocNames |->
                          IF k \in Fields THEN df.rows[index + 1][k] ELSE loc[k]]
            /\ pc' = "delta"
       ELSE /\ loc' = loc
            /\ pc' = "to_csv"
    /\ UNCHANGED <<file, rd, df, index, out, writes, stdout, exit, tb,
                   albedo, a_s, b_s, calls>>

(* A statement `name = value`: the local is assigned and main goes on, or  *)
(* the evaluation raised and nobody catches it.                            *)
Assign(at, name, value, next) ==
    IF IsExc(value)
    THEN /\ Uncaught(value[2], at)
         /\ loc' = loc
    ELSE /\ loc' = [loc EXCEPT ![name] = value]
         /\ pc' = next
         /\ UNCHANGED <<exit, tb>>

(* delta = calculate_delta(Tmean) *)
CalcDelta ==
    /\ pc = "delta"
    /\ LET r == calculate_delta(numpy, loc.Tmean)
       IN  /\ Assign("delta", "delta", r, "gamma")
           /\ calls' = Logged("calculate_delta", <<loc.Tmean>>, r)
    /\ UNCHANGED <<file, rd, df, index, out, writes, stdout, albedo, a_s, b_s>>

(* Faulty variant of CalcGamma: main goes on to Rn, before calculate_VPD.  *)
CalcGamma_ThenRn ==
    /\ pc = "gamma"
    /\ Assign("gamma", "gamma", FMul(F(665, -6), loc.pressure), "rn")
    /\ UNCHANGED <<file, rd, df, index, out, writes, stdout, albedo, a_s, b_s, calls>>

(* gamma = 0.000665*pressure *)
CalcGamma ==
    /\ pc = "gamma"
    /\ Assign("gamma", "gamma", FMul(F(665, -6), loc.pressure), "vpd")
    /\ UNCHANGED <<file, rd, df, index, out, writes, stdout, albedo, a_s, b_s, calls>>

(* es, ea = calculate_VPD(Tmin, Tmax, RHmin, RHmax) *)
CalcVPD ==
    /\ pc = "vpd"
    /\ LET r == calculate_VPD(numpy, loc.Tmin, loc.Tmax, loc.RHmin, loc.RHmax)
       IN  /\ IF IsExc(r[1]) \/ IsExc(r[2])
              THEN /\ Uncaught(Exc2(r[1], r[2])[2], "vpd")
                   /\ loc' = loc
              ELSE /\ loc' = [loc EXCEPT !.es = r[1], !.ea = r[2]]
                   /\ pc' = "rn"
                   /\ UNCHANGED <<exit, tb>>
           /\ calls' = Logged("calculate_VPD",
                              <<loc.Tmin, loc.Tmax, loc.RHmin, loc.RHmax>>, r)
    /\ UNCHANGED <<file, rd, df, index, out, writes, stdout, albedo, a_s, b_s>>

(* Faulty variant of CalcRn: the call leaves albedo changed. *)
CalcRn_Drift ==
    /\ pc = "rn"
    /\ LET r == Rn(numpy, loc.lat, loc.doy, loc.n, loc.ea, loc.Tmin, loc.Tmax, loc.z)
       IN  /\ Assign("rn", "solar_radiation", r, "pm")
           /\ calls' = Logged("Rn", <<loc.lat, loc.doy, loc.n, loc.ea, loc.Tmin,
                                      loc.Tmax, loc.z>>, r)
    /\ albedo' = FAdd(albedo, F(1, -2))
    /\ UNCHANGED <<file, rd, df, index, out, writes, stdout, a_s, b_s>>

(* solar_radiation = Rn(lat, doy, n, ea, Tmin, Tmax, altitude) *)
CalcRn ==
    /\ pc = "rn"
    /\ LET r == Rn(numpy, loc.lat, loc.doy, loc.n, loc.ea, loc.Tmin, loc.Tmax, loc.z)
       IN  /\ Assign("rn", "solar_radiation", r, "pm")
           /\ calls' = Logged("Rn", <<loc.lat, loc.doy, loc.n, loc.ea, loc.Tmin,
                                      loc.Tmax, loc.z>>, r)
    /\ UNCHANGED <<file, rd, df, index, out, writes, stdout, albedo, a_s, b_s>>

(* ET0 = penman_monteith(Tmean, delta, uz, solar_radiation, pressure,      *)
(*                       gamma, ea, es)                                    *)
CalcPM ==
    /\ pc = "pm"
    /\ LET r == penman_monteith(numpy, loc.Tmean, loc.delta, loc.uz,
                                loc.solar_radiation, loc.pressure, loc.gamma,
                                loc.ea, loc.es)
       IN  /\ Assign("pm", "ET0", r, "store")
           /\ calls' = Logged("penman_monteith",
                              <<loc.Tmean, loc.delta, loc.uz, loc.solar_radiation,
                                loc.pressure, loc.gamma, loc.ea, loc.es>>, r)
    /\ UNCHANGED <<file, rd, df, index, out, writes, stdout, albedo, a_s, b_s>>

(* Faulty variant of Stored: the value is stored as computed. *)
Stored_Unrounded(ET0) == ET0

(* The value main stores. *)
Stored(ET0) == FRound1(ET0)

(* Faulty variant of SetET0: the whole column is assigned (df['ET0'] = v). *)
SetET0_WholeColumn(rows, i, v) ==
    [j \in 1..Len(rows) |-> WithCol(rows[j], "ET0", v)]

(* df.at[index, 'ET0'] = v: the cell of row index; a table without the    *)
(* column gets it first, NaN in every row.                                 *)
SetET0(rows, i, v) ==
    [j \in 1..Len(rows) |->
        IF j = i THEN WithCol(rows[j], "ET0", v)
        ELSE IF "ET0" \in DOMAIN rows[j] THEN rows[j]
        ELSE WithCol(rows[j], "ET0", NaN)]

(* Faulty variant of Store: to_csv is called inside the loop, after every  *)
(* row.                                                                    *)
Store_AndWrite ==
    /\ pc = "store"
    /\ df' = [df EXCEPT !.rows = SetET0(df.rows, index + 1, FRound1(loc.ET0))]
    /\ out' = [written |-> TRUE, complete |-> TRUE, rows |-> df'.rows]
    /\ writes' = writes + 1
    /\ index' = index + 1
    /\ pc' = "for"
    /\ UNCHANGED <<file, rd, loc, stdout, exit, tb, albedo, a_s, b_s, calls>>

(* df.at[index, 'ET0'] = round(ET0, 1), and on to the next row *)
Store ==
    /\ pc = "store"
    /\ df' = [df EXCEPT !.rows = SetET0(df.rows, index + 1, Stored(loc.ET0))]
    /\ index' = index + 1
    /\ pc' = "for"
    /\ UNCHANGED <<file, rd, loc, out, writes, stdout, exit, tb,
                   albedo, a_s, b_s, calls>>

(* df.to_csv(args.result, index=False): the file is written whole, or the  *)
(* path cannot be written and the IOError is not caught.                   *)
ToCsv ==
    /\ pc = "to_csv"
    /\ \E writable \in BOOLEAN :
          IF writable
          THEN /\ out' = [written |-> TRUE, complete |-> TRUE, rows |-> df.rows]
               /\ writes' = writes + 1
               /\ pc' = "print" /\ UNCHANGED <<exit, tb>>
          ELSE /\ UNCHANGED <<out, writes>>
               /\ Uncaught(IOError, "to_csv")
    /\ UNCHANGED <<file, rd, df, index, loc, stdout, albedo, a_s, b_s, calls>>

(* print(Results saved ...); return 0; the script ends with status 0 *)
PrintSaved ==
    /\ pc = "print"
    /\ stdout' = Append(stdout, "Results saved")
    /\ pc' = "exited"
    /\ exit' = 0
    /\ UNCHANGED <<file, rd, df, index, loc, out, writes, tb, albedo, a_s, b_s, calls>>

(* The statements of main (read_data's included). *)
MainPcs == {"parse_args", "read_try", "read_return", "for", "delta", "gamma",
            "vpd", "rn", "pm", "store", "to_csv", "print"}

(* Ctrl-C: KeyboardInterrupt is raised at the statement main is at; no     *)
(* except clause inside main catches it.  One that arrives while to_csv    *)
(* writes can leave the first rows of the file behind.                     *)
Interrupt ==
    /\ pc \in MainPcs
    /\ tb' = <<KeyboardInterrupt, pc>>
    /\ pc' = "except"
    /\ IF pc = "to_csv"
       THEN \E k \in 0..Len(df.rows) :
               out' = IF k = 0 THEN out
                      ELSE [written |-> TRUE, complete |-> FALSE,
                            rows |-> SubSeq(df.rows, 1, k)]
       ELSE out' = out
    /\ UNCHANGED <<file, rd, df, index, loc, writes, stdout, exit,
                   albedo, a_s, b_s, calls>>

(* Faulty variant of HandleInterrupt: the message without sys.exit(1), so  *)
(* that the script ends normally.                                          *)
HandleInterrupt_NoExit ==
    /\ pc = "except"
    /\ stdout' = Append(stdout, "Script terminated by the user.")
    /\ exit' = 0
    /\ pc' = "exited"
    /\ UNCHANGED <<file, rd, df, index, loc, out, writes, tb, albedo, a_s, b_s, calls>>

(* except KeyboardInterrupt: print(...); sys.exit(1) *)
HandleInterrupt ==
    /\ pc = "except"
    /\ stdout' = Append(stdout, "Script terminated by the user.")
    /\ exit' = 1
    /\ pc' = "exited"
    /\ UNCHANGED <<file, rd, df, index, loc, out, writes, tb, albedo, a_s, b_s, calls>>

Next ==
    \/ ParseArgs
    \/ ReadTry
    \/ ReadReturn
    \/ ForNext
    \/ CalcDelta
    \/ CalcGamma
    \/ CalcVPD
    \/ CalcRn
    \/ CalcPM
    \/ Store
    \/ ToCsv
    \/ PrintSaved
    \/ Interrupt
    \/ HandleInterrupt

Spec == Init /\ [][Next]_vars

(* The same program on the one-record tables of the grid. *)
SpecGrid == InitWith(GridTables) /\ [][Next]_vars

----------------------------------------------------------------------------
(* What the claims speak of.                                               *)

Rows == file.rows
NRows == Len(file.rows)
Said(msg) == \E k \in 1..Len(stdout) : stdout[k] = msg
Last(q) == q[Len(q)]

(* The eleven fields of a row, and nothing else of it. *)
Record(r) == [k \in Fields |-> r[k]]

(* The value of the pipeline on one record: the four functions composed as *)
(* main composes them, with the module constants as the source sets them   *)
(* (an exception of any of the functions is the result).                   *)
ET0From(np, r, v) ==
    penman_monteith(np, r.Tmean, calculate_delta(np, r.Tmean), r.uz,
                    RnWith(F(23, -2), F(25, -2), F(50, -2), np, r.lat, r.doy, r.n,
                           v[2], r.Tmin, r.Tmax, r.z),
                    r.pressure, FMul(F(665, -6), r.pressure), v[2], v[1])

(* The same, tabulated once over the records of RowSet. *)
ET0Table ==
    [np \in BOOLEAN, r \in RowSet |->
        ET0From(np, r, calculate_VPD(np, r.Tmin, r.Tmax, r.RHmin, r.RHmax))]

RowET0(np, r) == ET0Table[np, r]

(* A value with at most one decimal place (or not finite). *)
OneDecimal(v) == IsFin(v) => (v[2] = 0 \/ v[3] >= -1 \/ v[2] % Pow10(-1 - v[3]) = 0)

(* The run ended, and neither the user nor the command line nor the result *)
(* path ended it.                                                          *)
EndedByItself ==
    /\ pc = "exited"
    /\ exit # 2
    /\ tb[1] \notin {KeyboardInterrupt, IOError}

(* The statements of the per-row computation. *)
RowPcs == {"delta", "gamma", "vpd", "rn", "pm", "store"}

----------------------------------------------------------------------------
----------------------------------------------------------------------------
(* The degenerate inputs C2 names. *)
OutsideAcos(x) == IsInf(x) \/ (IsFin(x) /\ FLtFin(One, FAbs(x)))
Polar(r) == OutsideAcos(AcosArg(TRUE, r.lat, r.doy))
ColdMean(r) == r.Tmean = F(-2373, -1) \/ r.Tmean = F(-273, 0)

(* The rows whose computation raises. *)
Raising == {i \in 1..NRows : IsExc(RowET0(numpy, Record(Rows[i])))}

(* C2, as claimed: a row with an acos argument outside [-1, 1] or a mean   *)
(* temperature of -237.3 or -273 raises no error; a non-finite value is    *)
(* stored in its ET0, the other rows are processed and the output is       *)
(* written.                                                                *)
C2_AsClaimed ==
    (EndedByItself /\ file.status = "ok") =>
        /\ tb[1] = 0 /\ exit = 0 /\ out.complete
        /\ \A i \in 1..NRows :
              (Polar(Rows[i]) \/ ColdMean(Rows[i])) => IsNonFinite(out.rows[i].ET0)

(* C2, amended: a mean temperature of -237.3 or -273 is a silent division  *)
(* by zero only in numpy arithmetic (every column numeric): then nothing   *)
(* is raised, the row's ET0 is NaN or infinite, the other rows are         *)
(* processed and the output is written.  An acos argument outside [-1, 1]  *)
(* makes math.acos raise ValueError, and the same mean temperatures in a   *)
(* table with a text column raise ZeroDivisionError; main catches neither: *)
(* the run ends at the first such row with exit status 1, without a        *)
(* message of its own and without an output file.                          *)
C2_RaisesOrPropagates ==
    (EndedByItself /\ file.status = "ok") =>
        /\ \A i \in 1..NRows :
              /\ Polar(Rows[i]) => i \in Raising
              /\ (ColdMean(Rows[i]) /\ ~Polar(Rows[i])) => (i \in Raising <=> ~numpy)
        /\ IF Raising = {}
           THEN /\ tb[1] = 0 /\ exit = 0 /\ out.complete
                /\ \A i \in 1..NRows :
                      ColdMean(Rows[i]) => IsNonFinite(out.rows[i].ET0)
           ELSE /\ exit = 1 /\ ~out.written /\ stdout = <<>>
                /\ index + 1 \in Raising
                /\ \A i \in Raising : i > index
                /\ tb[1] \in {ValueError, ZeroDivisionError}
                /\ tb[2] \in RowPcs
                /\ tb[1] = ValueError <=> tb[2] = "rn"
                /\ tb[1] = ValueError => Polar(Rows[index + 1])

(* C2's case: a row with mean temperature -237.3 got NaN, and the row      *)
(* after it was processed and written.                                     *)
C2_Witness ==
    /\ out.complete /\ NRows = 2
    /\ Rows[1].Tmean = F(-2373, -1)
    /\ IsNaN(out.rows[1].ET0)
    /\ IsFin(out.rows[2].ET0)

----------------------------------------------------------------------------
ReadFailed == file.status \in {"missing", "ioerror"}
(* read_data's try statement has run. *)
PastReadTry ==
    /\ pc \notin {"parse_args", "read_try"}
    /\ tb[2] \notin {"parse_args", "read_try"}
    /\ exit # 2

(* C3, as claimed: after a FileNotFoundError or IOError read_data prints   *)
(* its message and returns, so the failure does not stop inside read_data  *)
(* and main goes on with an unbound table.                                 *)
C3_AsClaimed ==
    (ReadFailed /\ PastReadTry /\ tb[1] # KeyboardInterrupt) =>
        /\ Len(stdout) > 0
        /\ tb[2] # "read_return"

(* C3, amended: read_data prints its message, and its return statement     *)
(* then raises UnboundLocalError inside read_data; main never gets a table *)
(* and never reaches the loop: nothing is computed or written, and unless  *)
(* the user interrupts first the run ends there with exit status 1.        *)
C3_FailsInsideReadData ==
    (ReadFailed /\ PastReadTry) =>
        /\ Len(stdout) > 0
        /\ stdout[1] = (IF file.status = "missing" THEN "File not found."
                        ELSE "An error occurred while reading the file")
        /\ ~df.bound /\ index = 0 /\ calls = NoCalls
        /\ ~out.written /\ writes = 0
        /\ pc \in {"read_return", "except", "exited"}
        /\ (pc = "exited" /\ tb[1] # KeyboardInterrupt)
              => (tb = <<UnboundLocalError, "read_return">> /\ exit = 1)

(* C3's case: the file was missing and the run has ended in read_data's    *)
(* return statement.                                                       *)
C3_Witness ==
    /\ file.status = "missing" /\ pc = "exited"
    /\ tb = <<UnboundLocalError, "read_return">>
    /\ stdout = <<"File not found.">>

----------------------------------------------------------------------------
(* C4: a KeyboardInterrupt raised at any statement of main reaches the     *)
(* except clause of the entry point, which prints 'Script terminated by    *)
(* the user.' and ends the process with status 1, and no other status.     *)
C4_InterruptExitsOne ==
    tb[1] = KeyboardInterrupt =>
        /\ tb[2] \in MainPcs
        /\ \/ pc = "except" /\ exit = -1
           \/ /\ pc = "exited" /\ exit = 1
              /\ Len(stdout) > 0
              /\ Last(stdout) = "Script terminated by the user."

(* C4's case: the user interrupted the second row's Rn and the process has *)
(* ended.                                                                  *)
C4_Witness ==
    pc = "exited" /\ tb = <<KeyboardInterrupt, "rn">> /\ index = 1

----------------------------------------------------------------------------
(* C5: the ET0 stored for a processed row is the value of the pipeline on  *)
(* that row's eleven fields alone, whatever the other rows and columns of  *)
(* the table are and whatever was computed before.                         *)
C5_OwnFieldsOnly ==
    df.bound =>
        \A i \in 1..index : df.rows[i].ET0 = FRound1(RowET0(TRUE, Record(Rows[i])))

(* C5's case: two different records were processed one after the other     *)
(* and got different results.                                              *)
C5_Witness ==
    /\ df.bound /\ index = 2 /\ Rows[1] # Rows[2]
    /\ IsFin(df.rows[1].ET0) /\ IsFin(df.rows[2].ET0)
    /\ df.rows[1].ET0 # df.rows[2].ET0

----------------------------------------------------------------------------
(* C6: every ET0 that main has stored is the Penman-Monteith value rounded *)
(* to one decimal place, and so is every ET0 of the written output.        *)
C6_StoredRounded ==
    /\ df.bound => \A i \in 1..index : OneDecimal(df.rows[i].ET0)
    /\ (df.bound /\ index > 0 /\ pc \in {"for", "delta", "gamma", "vpd", "rn", "pm", "to_csv"})
          => df.rows[index].ET0 = FRound1(loc.ET0)
    /\ out.written => \A i \in 1..Len(out.rows) : OneDecimal(out.rows[i].ET0)

(* C6's case: a value with more decimals was computed and its rounding was *)
(* stored.                                                                 *)
C6_Witness ==
    /\ pc = "for" /\ index = 1
    /\ IsFin(loc.ET0) /\ ~OneDecimal(loc.ET0)
    /\ df.rows[1].ET0 # loc.ET0

----------------------------------------------------------------------------
(* The calls of calculate_VPD made with RHmin = RHmax. *)
EqualRHCalls == {c \in calls["calculate_VPD"] : c[1][3] = c[1][4]}

(* es * RH / 100, in the two orders a reader can mean *)
ScaledLeft(es, RH) == PDiv(FMul(es, RH), F(100, 0))
ScaledRight(es, RH) == FMul(es, PDiv(RH, F(100, 0)))

(* |a - b| is at most eight rounding errors of b: each of the operations   *)
(* that tell the two expressions apart rounds once, by at most half a unit *)
(* in the last place, 1/2000 of the value at worst in this format.         *)
WithinRounding(a, b) ==
    /\ IsFin(a) /\ IsFin(b)
    /\ ~FLtFin(FAbs(b), FMul(F(250, 0), FAbs(FAddFin(a, FNeg(b)))))

----------------------------------------------------------------------------
(* C8: no statement changes albedo, a_s or b_s, and any two calls of one   *)
(* of the four formula functions with the same arguments returned the same *)
(* result, whatever was called in between.                                 *)
C8_Deterministic ==
    /\ albedo = F(23, -2) /\ a_s = F(25, -2) /\ b_s = F(50, -2)
    /\ \A f \in DOMAIN calls :
          \A c \in calls[f], d \in calls[f] : c[1] = d[1] => c[2] = d[2]

(* C8's case: a table whose two records are equal has been processed, so   *)
(* every function was called twice with the same arguments, other calls in *)
(* between.                                                                *)
C8_Witness ==
    /\ df.bound /\ index = 2 /\ Record(Rows[1]) = Record(Rows[2])
    /\ \A f \in DOMAIN calls : Cardinality(calls[f]) = 1

----------------------------------------------------------------------------
(* The record main is working on. *)
Current == df.rows[index + 1]

(* C9: within a record, es and ea are this record's before Rn is called;   *)
(* Rn is called with this record's ea; delta and gamma (0.000665 * the     *)
(* record's pressure) are this record's before ET0 is computed; ET0 is     *)
(* computed last, from these five values, and every earlier record has its *)
(* ET0 attached before the next record is started.                         *)
C9_DependenciesRespected ==
    pc \in RowPcs =>
        /\ index < Len(df.rows)
        /\ \A k \in Fields : loc[k] = Current[k]
        /\ \A i \in 1..index : "ET0" \in DOMAIN df.rows[i]
        /\ pc \in {"rn", "pm", "store"} =>
              <<loc.es, loc.ea>> = calculate_VPD(numpy, Current.Tmin, Current.Tmax,
                                                 Current.RHmin, Current.RHmax)
        /\ pc \in {"pm", "store"} =>
              /\ loc.solar_radiation = Rn(numpy, Current.lat, Current.doy, Current.n,
                                          loc.ea, Current.Tmin, Current.Tmax, Current.z)
              /\ loc.delta = calculate_delta(numpy, Current.Tmean)
              /\ loc.gamma = FMul(F(665, -6), Current.pressure)
        /\ pc = "store" =>
              loc.ET0 = penman_monteith(numpy, Current.Tmean, loc.delta, Current.uz,
                                        loc.solar_radiation, Current.pressure,
                                        loc.gamma, loc.ea, loc.es)
        /\ pc # "store" => (index > 0 => df.rows[index].ET0 = FRound1(loc.ET0))

(* C9's case: the second of two records with different humidities and      *)
(* mean temperatures has its ET0 computed, the first one's attached.       *)
C9_Witness ==
    /\ pc = "store" /\ index = 1
    /\ Rows[1].RHmin # Rows[2].RHmin /\ Rows[1].Tmean # Rows[2].Tmean
    /\ IsFin(loc.ET0) /\ IsFin(df.rows[1].ET0)

----------------------------------------------------------------------------
(* C10: to_csv completes at most once, and only after the loop has taken   *)
(* every record; a run that ends while reading or while computing a row    *)
(* leaves no output file at all; every row of an output has its ET0; and   *)
(* 'Results saved' is printed only after the write has completed.          *)
C10_WrittenOnceAtTheEnd ==
    /\ writes <= 1
    /\ out.complete <=> writes = 1
    /\ out.written =>
          /\ df.bound /\ index = Len(df.rows)
          /\ pc \in {"print", "except", "exited"}
          /\ tb[2] \in {"", "to_csv", "print"}
          /\ \A i \in 1..Len(out.rows) : out.rows[i] = df.rows[i] /\ "ET0" \in DOMAIN out.rows[i]
    /\ tb[2] \in {"parse_args", "read_try", "read_return", "for"} \cup RowPcs => ~out.written
    /\ Said("Results saved") => (out.complete /\ out.rows = df.rows /\ Last(stdout) = "Results saved")
    /\ (pc = "exited" /\ exit = 0) => (writes = 1 /\ Said("Results saved"))

(* C10's case: a run over two records has ended with its output written    *)
(* and reported.                                                           *)
C10_Witness ==
    pc = "exited" /\ exit = 0 /\ out.complete /\ Len(out.rows) = 2 /\ writes = 1

====
